---- MODULE Spec2Model ----
(***************************************************************************)
(* Commission calculator of the dealership dashboard                       *)
(* (src/src/lib/supabase.ts, calculateCommissions) and the grid that calls *)
(* it once per sale (SalesGrid, gridData).                                 *)
(*                                                                         *)
(* Amounts are JavaScript numbers in the source.  The model counts them in *)
(* hundredths of a dollar, so that prices such as 9999.99 or 1288.01 are   *)
(* inputs and "a whole number of dollars" is a property an output can      *)
(* fail to have.  An optional field of SaleEntry is a sequence of length   *)
(* at most one: << >> when the field is absent (undefined / null), <<v>>   *)
(* when it holds the number v.                                             *)
(*                                                                         *)
(* The second part models the remote store (the sales and notifications    *)
(* tables), shareSale and respondToSharedSale, which reach it in several   *)
(* awaited steps, and the Dashboard, whose handlers issue asynchronous     *)
(* calls that resolve in any order.  Every awaited store call either       *)
(* succeeds or returns an error.                                           *)
(***************************************************************************)
EXTENDS Integers, Sequences, FiniteSets, TLC

VARIABLES
  sales,          \* Dashboard state sales, handed to SalesGrid as its sales prop
  gridData,       \* the rows built so far by the gridData callback, one per sale
  salesTable,     \* remote table 'sales': the row of every sale id
  notifications,  \* remote table 'notifications': the rows inserted, in order
  share,          \* the shareSale call in progress or last finished
  respond,        \* the respondToSharedSale call in progress or last finished
  spiffsTable,    \* remote table 'spiffs': the row of every spiff id
  session,        \* useAuth().session: the id of the signed-in user, or NULL
  mounted,        \* the Dashboard effect has run for the first time
  currentDate,    \* Dashboard state currentDate: the month selected
  spiffs,         \* Dashboard state spiffs
  loading,        \* Dashboard state loading
  userName,       \* Dashboard state userName
  isNewSaleModalOpen,  \* Dashboard state isNewSaleModalOpen
  selectedItem,   \* Dashboard state selectedItem
  notificationsState,  \* SharedSalesNotifications state notifications
  inFlight,       \* the store calls of this client awaiting their response
  toasts          \* the toast shown last, << >> before the first one

gridVars == <<sales, gridData>>
storeVars == <<salesTable, notifications>>
shareVars == <<share, respond>>
dashVars ==
  <<session, mounted, currentDate, spiffs, loading, userName,
    isNewSaleModalOpen, selectedItem, notificationsState, inFlight, toasts,
    spiffsTable>>

vars ==
  <<sales, gridData, salesTable, notifications, share, respond, spiffsTable,
    session, mounted, currentDate, spiffs, loading, userName,
    isNewSaleModalOpen, selectedItem, notificationsState, inFlight, toasts>>

\* ------------------------------------------------------------------ bounds
\* sale_price ranges over the tier floors 0, 10000, ..., MaxPriceTier*10000
\* and the hundredth just below each of them.
MaxPriceTier == 3
\* warranty_price ranges over 0, 500, ..., MaxWarrantyPriceSteps*500.
MaxWarrantyPriceSteps == 5
\* warranty_cost ranges over 0, 500, ..., MaxWarrantyCostSteps*500 and the
\* hundredth just above each of them.
MaxWarrantyCostSteps == 2
\* Longest sales list handed to the grid in SpecGrid.
MaxSales == 3
\* Most rows the notifications table comes to hold.
MaxNotifications == 2
\* Most store calls of the Dashboard client awaiting their response at once.
MaxInFlight == 4
\* Most calls started by a click or by the timer (deletes, updates, inserts
\* and notification queries) awaiting their response at once.
MaxRequests == 1

\* ----------------------------------------------------------------- numbers
\* d dollars, in hundredths.
Dollars(d) == d * 100

\* An optional number field: absent, or present with value v.
Absent == << >>
Present(v) == <<v>>

IsPresent(field) == Len(field) = 1
ValueOf(field) == field[1]

\* JavaScript truthiness of an optional number field: undefined, null and 0
\* are falsy, every other number is truthy.
Truthy(field) == IsPresent(field) /\ ValueOf(field) # 0

\* Math.floor(a / b) for b > 0: the greatest integer q with q * b <= a.
MathFloorDiv(a, b) == a \div b

\* ------------------------------------------------------------------ inputs
SaleTypes == {"New", "Used", "Trade-In"}

SalePrices ==
  {p \in {Dollars(10000) * k - e : k \in 0..MaxPriceTier, e \in {0, 1}} : p >= 0}

AccessoriesPrices ==
  {Absent} \cup
  {Present(v) : v \in {0, Dollars(1288), Dollars(1288) + 1, Dollars(1289),
                       Dollars(1788), Dollars(1788) + 1, Dollars(1789),
                       Dollars(1889)}}

WarrantyPrices ==
  {Absent} \cup {Present(Dollars(500) * k) : k \in 0..MaxWarrantyPriceSteps}

WarrantyCosts ==
  {Absent} \cup
  {Present(Dollars(500) * k + e) : k \in 0..MaxWarrantyCostSteps, e \in {0, 1}}

MaintenancePrices ==
  {Absent} \cup
  {Present(v) : v \in {0, Dollars(800), Dollars(800) + 1, Dollars(801)}}

\* The fields of SaleEntry that calculateCommissions reads.
SaleEntries ==
  [sale_type : SaleTypes,
   sale_price : SalePrices,
   accessories_price : AccessoriesPrices,
   warranty_price : WarrantyPrices,
   warranty_cost : WarrantyCosts,
   maintenance_price : MaintenancePrices]

\* ------------------------------------------------------------- calculator
\* Variant: tier ceilings taken as inclusive (<= where the source has <).
carCommissionInclusiveCeiling(s) ==
  IF s.sale_price <= Dollars(10000) THEN Dollars(200)
  ELSE IF s.sale_price <= Dollars(20000) THEN Dollars(300)
  ELSE IF s.sale_price <= Dollars(30000) THEN Dollars(400)
  ELSE Dollars(500)

carCommissionOf(s) ==
  IF s.sale_price < Dollars(10000) THEN Dollars(200)
  ELSE IF s.sale_price < Dollars(20000) THEN Dollars(300)
  ELSE IF s.sale_price < Dollars(30000) THEN Dollars(400)
  ELSE Dollars(500)

\* Variant: the lower threshold given to 'Used' only, so that 'Trade-In'
\* shares the threshold of 'New'.
accessoriesCommissionUsedOnly(s) ==
  IF Truthy(s.accessories_price)
  THEN LET threshold == IF s.sale_type = "Used" THEN Dollars(488) ELSE Dollars(988)
           eligibleAmount == ValueOf(s.accessories_price) - threshold
       IN  IF eligibleAmount > Dollars(800) THEN Dollars(100) ELSE 0
  ELSE 0

\* Variant: a bonus in proportion to the eligible amount, 100 for every full
\* 800 above the threshold, instead of a flat 100.
accessoriesCommissionProportional(s) ==
  IF Truthy(s.accessories_price)
  THEN LET threshold == IF s.sale_type = "New" THEN Dollars(988) ELSE Dollars(488)
           eligibleAmount == ValueOf(s.accessories_price) - threshold
       IN  IF eligibleAmount > Dollars(800)
           THEN (eligibleAmount \div Dollars(800)) * Dollars(100)
           ELSE 0
  ELSE 0

accessoriesCommissionOf(s) ==
  IF Truthy(s.accessories_price)
  THEN LET threshold == IF s.sale_type = "New" THEN Dollars(988) ELSE Dollars(488)
           eligibleAmount == ValueOf(s.accessories_price) - threshold
       IN  IF eligibleAmount > Dollars(800) THEN Dollars(100) ELSE 0
  ELSE 0

\* Variant: a share of the profit without Math.floor (profit / 1000 * 100).
warrantyCommissionProportional(s) ==
  IF Truthy(s.warranty_price) /\ Truthy(s.warranty_cost)
  THEN LET profit == ValueOf(s.warranty_price) - ValueOf(s.warranty_cost)
       IN  (profit * 100) \div 1000
  ELSE 0

\* Variant: only warranty_price is tested for truthiness; warranty_cost is
\* tested against undefined / null.
warrantyCommissionPriceOnly(s) ==
  IF Truthy(s.warranty_price) /\ IsPresent(s.warranty_cost)
  THEN LET profit == ValueOf(s.warranty_price) - ValueOf(s.warranty_cost)
       IN  MathFloorDiv(profit, Dollars(1000)) * Dollars(100)
  ELSE 0

\* Variant: an absent warranty_cost counted as 0 (sale.warranty_cost || 0)
\* once warranty_price is truthy.
warrantyCommissionCostDefaulted(s) ==
  IF Truthy(s.warranty_price)
  THEN LET cost == IF IsPresent(s.warranty_cost) THEN ValueOf(s.warranty_cost) ELSE 0
           profit == ValueOf(s.warranty_price) - cost
       IN  MathFloorDiv(profit, Dollars(1000)) * Dollars(100)
  ELSE 0

\* Variant: the quotient truncated toward zero ((profit / 1000) | 0) instead
\* of Math.floor.
warrantyCommissionTruncated(s) ==
  IF Truthy(s.warranty_price) /\ Truthy(s.warranty_cost)
  THEN LET profit == ValueOf(s.warranty_price) - ValueOf(s.warranty_cost)
           quotient == IF profit >= 0
                       THEN profit \div Dollars(1000)
                       ELSE -((-profit) \div Dollars(1000))
       IN  quotient * Dollars(100)
  ELSE 0

warrantyCommissionOf(s) ==
  IF Truthy(s.warranty_price) /\ Truthy(s.warranty_cost)
  THEN LET profit == ValueOf(s.warranty_price) - ValueOf(s.warranty_cost)
       IN  MathFloorDiv(profit, Dollars(1000)) * Dollars(100)
  ELSE 0

\* Variant: the maintenance test chained to the warranty test with else if,
\* so that it is skipped when the warranty branch is taken.
maintenanceCommissionElseIf(s) ==
  IF Truthy(s.warranty_price) /\ Truthy(s.warranty_cost)
  THEN 0
  ELSE IF Truthy(s.maintenance_price) /\ ValueOf(s.maintenance_price) > Dollars(800)
       THEN Dollars(100)
       ELSE 0

\* Variant: the maintenance cutoff taken as inclusive (>= 800).
maintenanceCommissionInclusive(s) ==
  IF Truthy(s.maintenance_price) /\ ValueOf(s.maintenance_price) >= Dollars(800)
  THEN Dollars(100)
  ELSE 0

maintenanceCommissionOf(s) ==
  IF Truthy(s.maintenance_price) /\ ValueOf(s.maintenance_price) > Dollars(800)
  THEN Dollars(100)
  ELSE 0

\* Variant: a negative warranty commission left out of the total.
totalCommissionClamped(car, accessories, warranty, maintenance) ==
  car + accessories + (IF warranty < 0 THEN 0 ELSE warranty) + maintenance

totalCommissionOf(car, accessories, warranty, maintenance) ==
  car + accessories + warranty + maintenance

\* Variant: warrantyCommission declared outside the function and not reset
\* to 0 at each call, so that a sale without a warranty keeps the warranty
\* commission of the call before it.
calculateCommissionsCarriedOver(s) ==
  LET carCommission == carCommissionOf(s)
      accessoriesCommission == accessoriesCommissionOf(s)
      warrantyCommission ==
        IF Truthy(s.warranty_price) /\ Truthy(s.warranty_cost)
        THEN warrantyCommissionOf(s)
        ELSE IF gridData = << >> THEN 0
             ELSE gridData[Len(gridData)].warrantyCommission
      maintenanceCommission == maintenanceCommissionOf(s)
  IN  [carCommission |-> carCommission,
       accessoriesCommission |-> accessoriesCommission,
       warrantyCommission |-> warrantyCommission,
       maintenanceCommission |-> maintenanceCommission,
       totalCommission |-> totalCommissionOf(carCommission, accessoriesCommission,
                                             warrantyCommission, maintenanceCommission)]

calculateCommissions(s) ==
  LET carCommission == carCommissionOf(s)
      accessoriesCommission == accessoriesCommissionOf(s)
      warrantyCommission == warrantyCommissionOf(s)
      maintenanceCommission == maintenanceCommissionOf(s)
  IN  [carCommission |-> carCommission,
       accessoriesCommission |-> accessoriesCommission,
       warrantyCommission |-> warrantyCommission,
       maintenanceCommission |-> maintenanceCommission,
       totalCommission |-> totalCommissionOf(carCommission, accessoriesCommission,
                                             warrantyCommission, maintenanceCommission)]

\* ------------------------------------------------------------------ store
\* A column that holds no value (SQL null, JavaScript undefined).
NULL == "null"

\* Table 'users': id and email of every registered user.
usersTable ==
  {[id |-> "u1", email |-> "u1@dealer.test"],
   [id |-> "u2", email |-> "u2@dealer.test"]}

UserIds == {u.id : u \in usersTable}

\* The addresses a sale can be shared with: the registered ones and one
\* that belongs to nobody.
RecipientEmails == {u.email : u \in usersTable} \cup {"nobody@dealer.test"}

SaleIds == {"s1", "s2"}

\* Months a sale can be dated in.
Months == {1, 2}

\* The sales in the store: s1 belongs to u1, s2 to u2, neither is shared.
InitialSalesTable ==
  [id \in SaleIds |->
     [user_id |-> IF id = "s1" THEN "u1" ELSE "u2",
      month |-> IF id = "s1" THEN 1 ELSE 2,
      shared_with_email |-> NULL,
      shared_with_id |-> NULL,
      shared_status |-> NULL,
      trade_in_commission |-> Absent]]

\* Table 'spiffs' at the start: one spiff of u1 in month 1.
SpiffIds == {"p1", "p2"}

InitialSpiffsTable == [id \in {"p1"} |-> [user_id |-> "u1", month |-> 1]]

\* The month of a call whose closure reads no currentDate.
NoMonth == 0

\* A store call of the Dashboard client: the operation, the id it is about
\* (NULL where there is none) and the month its closure has captured.
Call(op, arg, month) == [op |-> op, arg |-> arg, month |-> month]

Calls ==
  {Call("fetchUserName", NULL, NoMonth),
   Call("getSharedSaleNotifications", NULL, NoMonth)}
  \cup {Call(op, NULL, m) : op \in {"fetchSales", "fetchSpiffs", "insertSpiff"},
                            m \in Months}
  \cup {Call("deleteSale", id, m) : id \in SaleIds, m \in Months}
  \cup {Call("deleteSpiff", id, m) : id \in SpiffIds, m \in Months}
  \cup {Call("updateTradeIn", id, m) : id \in SaleIds \cup SpiffIds, m \in Months}

NoCalls == [c \in Calls |-> 0]

\* No shareSale / respondToSharedSale call has been made.
NoShare ==
  [pc |-> "idle", saleId |-> NULL, recipientEmail |-> NULL,
   recipientId |-> NULL, error |-> NULL]

NoRespond == [pc |-> "idle", saleId |-> NULL, response |-> NULL, error |-> NULL]

Finished(call) == call.pc \in {"idle", "returned", "threw"}

\* ------------------------------------------------------------------- grid
\* The row pushed for a sale (the fields of GridRow the commission comes
\* from): the five amounts copied from the returned breakdown, and the sale.
GridRowOf(s) ==
  LET commissions == calculateCommissions(s)
  IN  [carCommission |-> commissions.carCommission,
       accessoriesCommission |-> commissions.accessoriesCommission,
       warrantyCommission |-> commissions.warrantyCommission,
       maintenanceCommission |-> commissions.maintenanceCommission,
       totalCommission |-> commissions.totalCommission,
       originalData |-> s]

\* One iteration of sales.forEach: the next sale is passed to
\* calculateCommissions and its row is pushed.
ProcessSale ==
  /\ Len(gridData) < Len(sales)
  /\ gridData' = Append(gridData, GridRowOf(sales[Len(gridData) + 1]))
  /\ UNCHANGED <<sales, storeVars, shareVars, dashVars>>

\* The store and the calls while only the grid is at work.
RestAtRest ==
  /\ salesTable = InitialSalesTable
  /\ notifications = << >>
  /\ share = NoShare
  /\ respond = NoRespond
  /\ spiffsTable = InitialSpiffsTable
  /\ session = NULL
  /\ mounted = FALSE
  /\ currentDate = 1
  /\ spiffs = << >>
  /\ loading = TRUE
  /\ userName = ""
  /\ isNewSaleModalOpen = FALSE
  /\ selectedItem = Absent
  /\ notificationsState = << >>
  /\ inFlight = NoCalls
  /\ toasts = << >>

Next == ProcessSale

\* A grid over a single sale, drawn from every combination of the inputs.
Init ==
  /\ sales \in [1..1 -> SaleEntries]
  /\ gridData = << >>
  /\ RestAtRest

Spec == Init /\ [][Next]_vars

\* The sales of a grid that is rendered over several sales: two values of
\* every field, chosen so that each changes the component it feeds.
GridSaleEntries ==
  [sale_type : SaleTypes,
   sale_price : {Dollars(10000) - 1, Dollars(10000)},
   accessories_price : {Absent, Present(Dollars(1289))},
   warranty_price : {Absent, Present(Dollars(2500))},
   warranty_cost : {Present(Dollars(500)), Present(Dollars(1000))},
   maintenance_price : {Present(Dollars(800)), Present(Dollars(801))}]

\* A grid over MaxSales sales that take at most two different values, in
\* any order and with any repetition.
InitGrid ==
  /\ \E a, b \in GridSaleEntries : sales \in [1..MaxSales -> {a, b}]
  /\ gridData = << >>
  /\ RestAtRest

SpecGrid == InitGrid /\ [][Next]_vars

\* ---------------------------------------------------------------- sharing
\* The rows of 'users' with the given email, as .eq('email', ...) selects.
UsersWithEmail(email) == {u \in usersTable : u.email = email}

\* shareSale(saleId, recipientEmail) is called.
StartShare(saleId, recipientEmail) ==
  /\ Finished(share)
  /\ Len(notifications) < MaxNotifications
  /\ share' = [pc |-> "lookup", saleId |-> saleId,
               recipientEmail |-> recipientEmail,
               recipientId |-> NULL, error |-> NULL]
  /\ UNCHANGED <<gridVars, dashVars, storeVars, respond>>

\* Variant: a failed lookup is not checked for; the call goes on to the
\* update with no recipient id.
ShareLookupUnchecked ==
  /\ share.pc = "lookup"
  /\ \/ \E u \in UsersWithEmail(share.recipientEmail) :
          /\ Cardinality(UsersWithEmail(share.recipientEmail)) = 1
          /\ share' = [share EXCEPT !.pc = "update", !.recipientId = u.id]
     \/ share' = [share EXCEPT !.pc = "update"]
  /\ UNCHANGED <<gridVars, dashVars, storeVars, respond>>

\* The recipient lookup returns: .single() gives the one matching row, or an
\* error (no row, several rows, or the request failed); an error or an
\* empty result throws 'Recipient not found'.
ShareLookup ==
  /\ share.pc = "lookup"
  /\ \/ \E u \in UsersWithEmail(share.recipientEmail) :
          /\ Cardinality(UsersWithEmail(share.recipientEmail)) = 1
          /\ share' = [share EXCEPT !.pc = "update", !.recipientId = u.id]
     \/ share' = [share EXCEPT !.pc = "threw", !.error = "Recipient not found"]
  /\ UNCHANGED <<gridVars, dashVars, storeVars, respond>>

\* Variant: the update leaves shared_with_id out.
ShareUpdateSaleNoId ==
  /\ share.pc = "update"
  /\ \/ /\ salesTable' =
             [salesTable EXCEPT ![share.saleId] =
                [@ EXCEPT !.shared_with_email = share.recipientEmail,
                          !.shared_status = "pending"]]
        /\ share' = [share EXCEPT !.pc = "insert"]
     \/ /\ share' = [share EXCEPT !.pc = "threw", !.error = "saleError"]
        /\ UNCHANGED salesTable
  /\ UNCHANGED <<gridVars, dashVars, notifications, respond>>

\* The update of the sale returns: the three shared_ columns are set, or
\* the update failed and saleError is thrown.
ShareUpdateSale ==
  /\ share.pc = "update"
  /\ \/ /\ salesTable' =
             [salesTable EXCEPT ![share.saleId] =
                [@ EXCEPT !.shared_with_email = share.recipientEmail,
                          !.shared_with_id = share.recipientId,
                          !.shared_status = "pending"]]
        /\ share' = [share EXCEPT !.pc = "insert"]
     \/ /\ share' = [share EXCEPT !.pc = "threw", !.error = "saleError"]
        /\ UNCHANGED salesTable
  /\ UNCHANGED <<gridVars, dashVars, notifications, respond>>

\* The insert of the notification returns: the row is there and the call
\* returns { success: true }, or the insert failed and notificationError is
\* thrown.
ShareInsertNotification ==
  /\ share.pc = "insert"
  /\ \/ /\ notifications' =
             Append(notifications,
                    [user_id |-> share.recipientId, sale_id |-> share.saleId,
                     type |-> "shared_sale_pending"])
        /\ share' = [share EXCEPT !.pc = "returned"]
     \/ /\ share' = [share EXCEPT !.pc = "threw", !.error = "notificationError"]
        /\ UNCHANGED notifications
  /\ UNCHANGED <<gridVars, dashVars, salesTable, respond>>

\* respondToSharedSale(saleId, response) is called for a sale the store
\* holds a notification for.
StartRespond(saleId, response) ==
  /\ Finished(respond)
  /\ \E i \in DOMAIN notifications : notifications[i].sale_id = saleId
  /\ respond' = [pc |-> "update", saleId |-> saleId, response |-> response,
                 error |-> NULL]
  /\ UNCHANGED <<gridVars, dashVars, storeVars, share>>

\* The update of shared_status returns: the response is stored, or the
\* update failed and saleError is thrown.
RespondUpdateSale ==
  /\ respond.pc = "update"
  /\ \/ /\ salesTable' =
             [salesTable EXCEPT ![respond.saleId] =
                [@ EXCEPT !.shared_status = respond.response]]
        /\ respond' = [respond EXCEPT !.pc = "returned"]
     \/ /\ respond' = [respond EXCEPT !.pc = "threw", !.error = "saleError"]
        /\ UNCHANGED salesTable
  /\ UNCHANGED <<gridVars, dashVars, notifications, share>>

InitShare ==
  /\ sales = << >>
  /\ gridData = << >>
  /\ RestAtRest

NextShare ==
  \/ \E saleId \in SaleIds, email \in RecipientEmails : StartShare(saleId, email)
  \/ ShareLookup
  \/ ShareUpdateSale
  \/ ShareInsertNotification
  \/ \E saleId \in SaleIds, response \in {"accepted", "rejected"} :
       StartRespond(saleId, response)
  \/ RespondUpdateSale

SpecShare == InitShare /\ [][NextShare]_vars

\* -------------------------------------------------------------- Dashboard
\* The rows of a table as the client receives them: the id with the columns.
SaleRow(id) == [id |-> id] @@ salesTable[id]
SpiffRow(id) == [id |-> id] @@ spiffsTable[id]

\* The order in which rows of one month are returned (the model dates a
\* row by its month only, so .order('date') leaves the rows of a result in
\* the order of the table).
SaleIdOrder == <<"s1", "s2">>
SpiffIdOrder == <<"p1", "p2">>

\* from('sales').select('*').eq('user_id', ...).gte('date', startDate)
\* .lte('date', endDate): the sales of the user dated in the month.
QuerySales(userId, month) ==
  LET Selected(id) ==
        /\ id \in DOMAIN salesTable
        /\ salesTable[id].user_id = userId
        /\ salesTable[id].month = month
      ids == SelectSeq(SaleIdOrder, Selected)
  IN  [i \in 1..Len(ids) |-> SaleRow(ids[i])]

\* The same query on 'spiffs'.
QuerySpiffs(userId, month) ==
  LET Selected(id) ==
        /\ id \in DOMAIN spiffsTable
        /\ spiffsTable[id].user_id = userId
        /\ spiffsTable[id].month = month
      ids == SelectSeq(SpiffIdOrder, Selected)
  IN  [i \in 1..Len(ids) |-> SpiffRow(ids[i])]

RECURSIVE SumOf(_, _)
SumOf(bag, S) ==
  IF S = {} THEN 0
  ELSE LET c == CHOOSE x \in S : TRUE IN bag[c] + SumOf(bag, S \ {c})

\* Number of store calls awaiting their response.
InFlightCount == SumOf(inFlight, Calls)

\* Number of deletes, updates, inserts and notification queries awaiting
\* their response.
RequestCount ==
  SumOf(inFlight, {c \in Calls : c.op \in {"deleteSale", "deleteSpiff",
                                            "updateTradeIn", "insertSpiff",
                                            "getSharedSaleNotifications"}})

\* A further delete, update, insert or notification query can be sent.
CanRequest == InFlightCount < MaxInFlight /\ RequestCount < MaxRequests

Issue(bag, c) == [bag EXCEPT ![c] = @ + 1]
Settle(bag, c) == [bag EXCEPT ![c] = @ - 1]

\* toast.error(message) / toast.success(message): the toast is shown; toasts
\* holds the toast shown last.
ErrorToast(message) == [kind |-> "error", message |-> message]
SuccessToast(message) == [kind |-> "success", message |-> message]

Toast(shown, toast) == <<toast>>

\* The three calls of the effect: fetchUserName(), fetchSales() and
\* fetchSpiffs(), each up to its await, for the month rendered.
EffectCalls(bag, month) ==
  Issue(Issue(Issue(bag, Call("fetchUserName", NULL, NoMonth)),
              Call("fetchSales", NULL, month)),
        Call("fetchSpiffs", NULL, month))

\* onSaleAdded / onNotificationAction: fetchSales() and fetchSpiffs() of the
\* render the callback was taken from.
RefreshCalls(bag, month) ==
  Issue(Issue(bag, Call("fetchSales", NULL, month)),
        Call("fetchSpiffs", NULL, month))

\* The Dashboard is on screen with its controls: the effect has run for a
\* signed-in user and loading is over.
Rendered == mounted /\ session # NULL /\ ~loading

\* The effect runs after the first render: without a user id it navigates
\* to /login, with one it starts the three fetches.
Mount ==
  /\ ~mounted
  /\ mounted' = TRUE
  /\ inFlight' = IF session = NULL THEN inFlight
                 ELSE EffectCalls(inFlight, currentDate)
  /\ UNCHANGED <<gridVars, storeVars, shareVars, spiffsTable, session,
                 currentDate, spiffs, loading, userName, isNewSaleModalOpen,
                 selectedItem, notificationsState, toasts>>

\* MonthFilter calls setCurrentDate; the Dashboard renders again and the
\* effect starts the three fetches for the new month.
ChangeMonth(month) ==
  /\ Rendered
  /\ InFlightCount + 3 <= MaxInFlight
  /\ currentDate' = month
  /\ inFlight' = EffectCalls(inFlight, month)
  /\ UNCHANGED <<gridVars, storeVars, shareVars, spiffsTable, session, mounted,
                 spiffs, loading, userName, isNewSaleModalOpen, selectedItem,
                 notificationsState, toasts>>

\* The name shown for a user: the part of the email before '@', with its
\* first letter in upper case.
DisplayName(userId) == IF userId = "u1" THEN "U1" ELSE "U2"

\* supabase.auth.getUser() returns the user: userName is set.
FetchUserNameOk ==
  /\ inFlight[Call("fetchUserName", NULL, NoMonth)] > 0
  /\ inFlight' = Settle(inFlight, Call("fetchUserName", NULL, NoMonth))
  /\ userName' = DisplayName(session)
  /\ UNCHANGED <<gridVars, storeVars, shareVars, spiffsTable, session, mounted,
                 currentDate, spiffs, loading, isNewSaleModalOpen, selectedItem,
                 notificationsState, toasts>>

\* supabase.auth.getUser() throws: the error is caught and a toast shown.
FetchUserNameError ==
  /\ inFlight[Call("fetchUserName", NULL, NoMonth)] > 0
  /\ inFlight' = Settle(inFlight, Call("fetchUserName", NULL, NoMonth))
  /\ toasts' = Toast(toasts, ErrorToast("Error fetching user information"))
  /\ UNCHANGED <<gridVars, storeVars, shareVars, spiffsTable, session, mounted,
                 currentDate, spiffs, loading, userName, isNewSaleModalOpen,
                 selectedItem, notificationsState>>

\* The query of a fetchSales returns its rows: setSales(data), and in the
\* finally block setLoading(false).
FetchSalesOk(month) ==
  /\ inFlight[Call("fetchSales", NULL, month)] > 0
  /\ inFlight' = Settle(inFlight, Call("fetchSales", NULL, month))
  /\ sales' = QuerySales(session, month)
  /\ loading' = FALSE
  /\ UNCHANGED <<gridData, storeVars, shareVars, spiffsTable, session, mounted,
                 currentDate, spiffs, userName, isNewSaleModalOpen, selectedItem,
                 notificationsState, toasts>>

\* Variant: setLoading(false) placed after setSales in the try block instead
\* of the finally block.
FetchSalesErrorStillLoading(month) ==
  /\ inFlight[Call("fetchSales", NULL, month)] > 0
  /\ inFlight' = Settle(inFlight, Call("fetchSales", NULL, month))
  /\ toasts' = Toast(toasts, ErrorToast("Error fetching sales data"))
  /\ UNCHANGED <<gridVars, storeVars, shareVars, spiffsTable, session, mounted,
                 currentDate, spiffs, loading, userName, isNewSaleModalOpen,
                 selectedItem, notificationsState>>

\* The query of a fetchSales returns an error: it is caught, a toast is
\* shown, and in the finally block setLoading(false).
FetchSalesError(month) ==
  /\ inFlight[Call("fetchSales", NULL, month)] > 0
  /\ inFlight' = Settle(inFlight, Call("fetchSales", NULL, month))
  /\ toasts' = Toast(toasts, ErrorToast("Error fetching sales data"))
  /\ loading' = FALSE
  /\ UNCHANGED <<gridVars, storeVars, shareVars, spiffsTable, session, mounted,
                 currentDate, spiffs, userName, isNewSaleModalOpen, selectedItem,
                 notificationsState>>

\* The query of a fetchSpiffs returns its rows: setSpiffs(data).
FetchSpiffsOk(month) ==
  /\ inFlight[Call("fetchSpiffs", NULL, month)] > 0
  /\ inFlight' = Settle(inFlight, Call("fetchSpiffs", NULL, month))
  /\ spiffs' = QuerySpiffs(session, month)
  /\ UNCHANGED <<gridVars, storeVars, shareVars, spiffsTable, session, mounted,
                 currentDate, loading, userName, isNewSaleModalOpen, selectedItem,
                 notificationsState, toasts>>

\* The query of a fetchSpiffs returns an error: it is caught and a toast is
\* shown.
FetchSpiffsError(month) ==
  /\ inFlight[Call("fetchSpiffs", NULL, month)] > 0
  /\ inFlight' = Settle(inFlight, Call("fetchSpiffs", NULL, month))
  /\ toasts' = Toast(toasts, ErrorToast("Error fetching spiffs data"))
  /\ UNCHANGED <<gridVars, storeVars, shareVars, spiffsTable, session, mounted,
                 currentDate, spiffs, loading, userName, isNewSaleModalOpen,
                 selectedItem, notificationsState>>

\* The items of the grid: originalData of its rows.
GridItems ==
  {sales[i] : i \in DOMAIN sales} \cup {spiffs[i] : i \in DOMAIN spiffs}

\* The pencil of a grid row is clicked.
handleEdit(item) ==
  /\ Rendered
  /\ selectedItem' = Present(item)
  /\ isNewSaleModalOpen' = TRUE
  /\ UNCHANGED <<gridVars, storeVars, shareVars, spiffsTable, session, mounted,
                 currentDate, spiffs, loading, userName, notificationsState,
                 inFlight, toasts>>

\* The New Sale button is clicked.
handleNewSale ==
  /\ Rendered
  /\ selectedItem' = Absent
  /\ isNewSaleModalOpen' = TRUE
  /\ UNCHANGED <<gridVars, storeVars, shareVars, spiffsTable, session, mounted,
                 currentDate, spiffs, loading, userName, notificationsState,
                 inFlight, toasts>>

\* Variant: handleModalClose closes the modal and leaves selectedItem as it
\* is.
handleModalCloseKeepsItem ==
  /\ Rendered
  /\ isNewSaleModalOpen
  /\ isNewSaleModalOpen' = FALSE
  /\ UNCHANGED <<gridVars, storeVars, shareVars, spiffsTable, session, mounted,
                 currentDate, spiffs, loading, userName, selectedItem,
                 notificationsState, inFlight, toasts>>

\* The modal is closed by its X or its backdrop.
handleModalClose ==
  /\ Rendered
  /\ isNewSaleModalOpen
  /\ isNewSaleModalOpen' = FALSE
  /\ selectedItem' = Absent
  /\ UNCHANGED <<gridVars, storeVars, shareVars, spiffsTable, session, mounted,
                 currentDate, spiffs, loading, userName, notificationsState,
                 inFlight, toasts>>

\* The bin of a grid row is clicked and the confirm dialog accepted: the
\* delete is sent.  The call keeps the fetchSales / fetchSpiffs of the
\* render it was made in, and with it the month of that render.
handleDelete(item) ==
  /\ Rendered
  /\ CanRequest
  /\ inFlight' =
       Issue(inFlight,
             Call(IF item.id \in SaleIds THEN "deleteSale" ELSE "deleteSpiff",
                  item.id, currentDate))
  /\ UNCHANGED <<gridVars, storeVars, shareVars, spiffsTable, session, mounted,
                 currentDate, spiffs, loading, userName, isNewSaleModalOpen,
                 selectedItem, notificationsState, toasts>>

\* A table without the row of the id.
Without(table, id) == [x \in DOMAIN table \ {id} |-> table[x]]

\* The delete of a sale returns without error: a toast is shown and
\* fetchSales() is called.
DeleteSaleOk(id, month) ==
  /\ inFlight[Call("deleteSale", id, month)] > 0
  /\ salesTable' = Without(salesTable, id)
  /\ toasts' = Toast(toasts, SuccessToast("Sale deleted successfully"))
  /\ inFlight' = Issue(Settle(inFlight, Call("deleteSale", id, month)),
                       Call("fetchSales", NULL, month))
  /\ UNCHANGED <<gridVars, notifications, shareVars, spiffsTable, session,
                 mounted, currentDate, spiffs, loading, userName,
                 isNewSaleModalOpen, selectedItem, notificationsState>>

\* The delete of a spiff returns without error: a toast is shown and
\* fetchSpiffs() is called.
DeleteSpiffOk(id, month) ==
  /\ inFlight[Call("deleteSpiff", id, month)] > 0
  /\ spiffsTable' = Without(spiffsTable, id)
  /\ toasts' = Toast(toasts, SuccessToast("Spiff deleted successfully"))
  /\ inFlight' = Issue(Settle(inFlight, Call("deleteSpiff", id, month)),
                       Call("fetchSpiffs", NULL, month))
  /\ UNCHANGED <<gridVars, storeVars, shareVars, session, mounted, currentDate,
                 spiffs, loading, userName, isNewSaleModalOpen, selectedItem,
                 notificationsState>>

\* A delete returns an error: it is caught and a toast is shown.
DeleteError(op, id, month) ==
  /\ inFlight[Call(op, id, month)] > 0
  /\ inFlight' = Settle(inFlight, Call(op, id, month))
  /\ toasts' = Toast(toasts, ErrorToast(IF op = "deleteSale"
                                        THEN "Error deleting sale"
                                        ELSE "Error deleting spiff"))
  /\ UNCHANGED <<gridVars, storeVars, shareVars, spiffsTable, session, mounted,
                 currentDate, spiffs, loading, userName, isNewSaleModalOpen,
                 selectedItem, notificationsState>>

\* What a failing store call reports as error.message: a text or nothing.
StoreErrorMessages == {"", "store error"}

\* toast.error(error.message || fallback)
MessageOr(message, fallback) == IF Truthy(message) THEN message ELSE fallback

\* The amounts entered in the trade-in form.
TradeInAmounts == {Dollars(150)}

\* TradeInForm.handleSubmit with an amount entered.  With an entry being
\* edited the update is sent; without one, editSale.id throws inside the
\* try block and the catch shows the message of the TypeError.
SubmitTradeIn ==
  /\ Rendered
  /\ isNewSaleModalOpen
  /\ IF IsPresent(selectedItem)
     THEN /\ CanRequest
          /\ inFlight' = Issue(inFlight, Call("updateTradeIn",
                                              ValueOf(selectedItem).id,
                                              currentDate))
          /\ UNCHANGED toasts
     ELSE /\ toasts' = Toast(toasts, ErrorToast("TypeError"))
          /\ UNCHANGED inFlight
  /\ UNCHANGED <<gridVars, storeVars, shareVars, spiffsTable, session, mounted,
                 currentDate, spiffs, loading, userName, isNewSaleModalOpen,
                 selectedItem, notificationsState>>

\* The update of trade_in_commission returns without error: a toast is
\* shown, onTradeInAdded() starts fetchSales() and fetchSpiffs(), and
\* onClose() closes the modal.
UpdateTradeInOk(id, month) ==
  /\ inFlight[Call("updateTradeIn", id, month)] > 0
  /\ \E amount \in TradeInAmounts :
       salesTable' =
         [x \in DOMAIN salesTable |->
            IF x = id
            THEN [salesTable[x] EXCEPT !.trade_in_commission = Present(amount)]
            ELSE salesTable[x]]
  /\ toasts' = Toast(toasts,
                     SuccessToast("Trade-in commission updated successfully"))
  /\ inFlight' = RefreshCalls(Settle(inFlight, Call("updateTradeIn", id, month)),
                              month)
  /\ isNewSaleModalOpen' = FALSE
  /\ selectedItem' = Absent
  /\ UNCHANGED <<gridVars, notifications, shareVars, spiffsTable, session,
                 mounted, currentDate, spiffs, loading, userName,
                 notificationsState>>

\* The update of trade_in_commission returns an error: it is caught and a
\* toast is shown; the modal stays as it is.
UpdateTradeInError(id, month) ==
  /\ inFlight[Call("updateTradeIn", id, month)] > 0
  /\ inFlight' = Settle(inFlight, Call("updateTradeIn", id, month))
  /\ \E message \in StoreErrorMessages :
       toasts' = Toast(toasts,
                       ErrorToast(MessageOr(message,
                                            "Error updating trade-in commission")))
  /\ UNCHANGED <<gridVars, storeVars, shareVars, spiffsTable, session, mounted,
                 currentDate, spiffs, loading, userName, isNewSaleModalOpen,
                 selectedItem, notificationsState>>

\* SpiffForm.handleSubmit with an amount and a date entered and a note of
\* at most 40 words: the insert is sent.
SubmitSpiff ==
  /\ Rendered
  /\ isNewSaleModalOpen
  /\ CanRequest
  /\ inFlight' = Issue(inFlight, Call("insertSpiff", NULL, currentDate))
  /\ UNCHANGED <<gridVars, storeVars, shareVars, spiffsTable, session, mounted,
                 currentDate, spiffs, loading, userName, isNewSaleModalOpen,
                 selectedItem, notificationsState, toasts>>

\* The ids the store has not yet given to a spiff.
FreeSpiffIds == SpiffIds \ DOMAIN spiffsTable

\* The insert of the spiff returns without error (the spiff is dated in one
\* of the months): a toast is shown, onSpiffAdded() starts fetchSales() and
\* fetchSpiffs(), and onClose() closes the modal.
InsertSpiffOk(month) ==
  /\ inFlight[Call("insertSpiff", NULL, month)] > 0
  /\ FreeSpiffIds # {}
  /\ \E date \in Months :
       LET id == CHOOSE x \in FreeSpiffIds : TRUE
       IN  spiffsTable' =
             [x \in DOMAIN spiffsTable \cup {id} |->
                IF x = id THEN [user_id |-> session, month |-> date]
                ELSE spiffsTable[x]]
  /\ toasts' = Toast(toasts, SuccessToast("Spiff bonus added successfully"))
  /\ inFlight' = RefreshCalls(Settle(inFlight, Call("insertSpiff", NULL, month)),
                              month)
  /\ isNewSaleModalOpen' = FALSE
  /\ selectedItem' = Absent
  /\ UNCHANGED <<gridVars, storeVars, shareVars, session, mounted, currentDate,
                 spiffs, loading, userName, notificationsState>>

\* The insert of the spiff returns an error: it is caught and a toast is
\* shown; the modal stays as it is.
InsertSpiffError(month) ==
  /\ inFlight[Call("insertSpiff", NULL, month)] > 0
  /\ inFlight' = Settle(inFlight, Call("insertSpiff", NULL, month))
  /\ \E message \in StoreErrorMessages :
       toasts' = Toast(toasts,
                       ErrorToast(MessageOr(message, "Error adding spiff bonus")))
  /\ UNCHANGED <<gridVars, storeVars, shareVars, spiffsTable, session, mounted,
                 currentDate, spiffs, loading, userName, isNewSaleModalOpen,
                 selectedItem, notificationsState>>

\* getSharedSaleNotifications(userId): the notifications of the user (no
\* step of the model marks a notification as read).
QueryNotifications(userId) ==
  LET Mine(n) == n.user_id = userId IN SelectSeq(notifications, Mine)

\* fetchNotifications(), called when SharedSalesNotifications mounts and
\* every 30 seconds after that: the query is sent.
fetchNotifications ==
  /\ Rendered
  /\ CanRequest
  /\ inFlight' = Issue(inFlight, Call("getSharedSaleNotifications", NULL, NoMonth))
  /\ UNCHANGED <<gridVars, storeVars, shareVars, spiffsTable, session, mounted,
                 currentDate, spiffs, loading, userName, isNewSaleModalOpen,
                 selectedItem, notificationsState, toasts>>

\* The query of a fetchNotifications returns its rows: setNotifications.
FetchNotificationsOk ==
  /\ inFlight[Call("getSharedSaleNotifications", NULL, NoMonth)] > 0
  /\ inFlight' = Settle(inFlight, Call("getSharedSaleNotifications", NULL, NoMonth))
  /\ notificationsState' = QueryNotifications(session)
  /\ UNCHANGED <<gridVars, storeVars, shareVars, spiffsTable, session, mounted,
                 currentDate, spiffs, loading, userName, isNewSaleModalOpen,
                 selectedItem, toasts>>

\* The query of a fetchNotifications returns an error:
\* getSharedSaleNotifications logs and rethrows it, and the catch of
\* fetchNotifications logs it to the console.
FetchNotificationsError ==
  /\ inFlight[Call("getSharedSaleNotifications", NULL, NoMonth)] > 0
  /\ inFlight' = Settle(inFlight, Call("getSharedSaleNotifications", NULL, NoMonth))
  /\ UNCHANGED <<gridVars, storeVars, shareVars, spiffsTable, session, mounted,
                 currentDate, spiffs, loading, userName, isNewSaleModalOpen,
                 selectedItem, notificationsState, toasts>>

\* handleNotificationAction, the onAction of a notification on screen:
\* fetchNotifications(), then the onNotificationAction of the Dashboard,
\* fetchSales() and fetchSpiffs().
handleNotificationAction ==
  /\ Rendered
  /\ notificationsState # << >>
  /\ InFlightCount + 3 <= MaxInFlight
  /\ inFlight' = RefreshCalls(Issue(inFlight,
                                    Call("getSharedSaleNotifications", NULL,
                                         NoMonth)),
                              currentDate)
  /\ UNCHANGED <<gridVars, storeVars, shareVars, spiffsTable, session, mounted,
                 currentDate, spiffs, loading, userName, isNewSaleModalOpen,
                 selectedItem, notificationsState, toasts>>

\* The Dashboard before its first effect, for a signed-in user or none.
InitDashboard ==
  /\ sales = << >>
  /\ gridData = << >>
  /\ salesTable = InitialSalesTable
  /\ notifications = << >>
  /\ share = NoShare
  /\ respond = NoRespond
  /\ spiffsTable = InitialSpiffsTable
  /\ session \in UserIds \cup {NULL}
  /\ mounted = FALSE
  /\ currentDate \in Months
  /\ spiffs = << >>
  /\ loading = TRUE
  /\ userName = ""
  /\ isNewSaleModalOpen = FALSE
  /\ selectedItem = Absent
  /\ notificationsState = << >>
  /\ inFlight = NoCalls
  /\ toasts = << >>

\* The steps of the months: the effect and the month filter, over a store
\* that answers every call without error.
NextReliable ==
  \/ Mount
  \/ \E month \in Months : ChangeMonth(month)
  \/ FetchUserNameOk
  \/ \E month \in Months : FetchSalesOk(month)
  \/ \E month \in Months : FetchSpiffsOk(month)

SpecReliable == InitDashboard /\ [][NextReliable]_vars

\* The steps of the effect: the first render and the three fetches, each
\* answered with or without error.
NextFetches ==
  \/ Mount
  \/ FetchUserNameOk
  \/ FetchUserNameError
  \/ \E month \in Months : FetchSalesOk(month)
  \/ \E month \in Months : FetchSalesError(month)
  \/ \E month \in Months : FetchSpiffsOk(month)
  \/ \E month \in Months : FetchSpiffsError(month)

\* The steps of the modal and of its two forms.
NextForms ==
  \/ \E item \in GridItems : handleEdit(item)
  \/ handleNewSale
  \/ handleModalClose
  \/ SubmitTradeIn
  \/ \E id \in SaleIds \cup SpiffIds, month \in Months : UpdateTradeInOk(id, month)
  \/ \E id \in SaleIds \cup SpiffIds, month \in Months :
       UpdateTradeInError(id, month)
  \/ SubmitSpiff
  \/ \E month \in Months : InsertSpiffOk(month)
  \/ \E month \in Months : InsertSpiffError(month)

\* The steps of the delete of a row and of the notifications.
NextRequests ==
  \/ \E item \in GridItems : handleDelete(item)
  \/ \E id \in SaleIds, month \in Months : DeleteSaleOk(id, month)
  \/ \E id \in SpiffIds, month \in Months : DeleteSpiffOk(id, month)
  \/ \E id \in SaleIds, month \in Months : DeleteError("deleteSale", id, month)
  \/ \E id \in SpiffIds, month \in Months : DeleteError("deleteSpiff", id, month)
  \/ fetchNotifications
  \/ FetchNotificationsOk
  \/ FetchNotificationsError

\* The Dashboard of one month with its modal.
NextModal == NextFetches \/ NextForms

SpecModal == InitDashboard /\ [][NextModal]_vars

\* The Dashboard of one month with all its handlers, for the user u2.
NextDashboard == NextFetches \/ NextForms \/ NextRequests

InitHandlers == InitDashboard /\ session = "u2"

SpecDashboard == InitHandlers /\ [][NextDashboard]_vars

\* The Dashboard with its month filter, each fetch answered with or without
\* error.
NextLoading ==
  \/ NextFetches
  \/ \E month \in Months : ChangeMonth(month)

SpecLoading == InitDashboard /\ [][NextLoading]_vars

\* The same, where the effect runs after the first render and the query of
\* every fetchSales returns.
SpecLoadingFair ==
  /\ SpecLoading
  /\ WF_vars(Mount)
  /\ WF_vars(\E month \in Months : FetchSalesOk(month) \/ FetchSalesError(month))

\* The email the signed-in user is registered under.
SessionEmail == (CHOOSE u \in usersTable : u.id = session).email

\* The steps of sharing the sales of the other users with the signed-in
\* user u2, whose Dashboard fetches its sales, its spiffs and its
\* notifications from a store that answers these fetches without error.
NextShared ==
  \/ \E saleId \in SaleIds :
       /\ saleId \in DOMAIN salesTable
       /\ salesTable[saleId].user_id # session
       /\ StartShare(saleId, SessionEmail)
  \/ ShareLookup
  \/ ShareUpdateSale
  \/ ShareInsertNotification
  \/ \E saleId \in SaleIds, response \in {"accepted", "rejected"} :
       StartRespond(saleId, response)
  \/ RespondUpdateSale
  \/ Mount
  \/ FetchUserNameOk
  \/ \E month \in Months : FetchSalesOk(month)
  \/ \E month \in Months : FetchSpiffsOk(month)
  \/ fetchNotifications
  \/ FetchNotificationsOk
  \/ handleNotificationAction

InitShared == InitDashboard /\ session = "u2"

SpecShared == InitShared /\ [][NextShared]_vars

\* The rows that have been computed.
Rows == {gridData[i] : i \in DOMAIN gridData}

\* --------------------------------------------------------- claims C1 .. C5
\* C1: the car commission of every computed row is 200 below 10000, 300 in
\* [10000, 20000), 400 in [20000, 30000) and 500 from 30000 on; each tier
\* includes its floor (10000 gives 300, 20000 gives 400, 30000 gives 500).
C1_CarCommissionTiers ==
  \A r \in Rows :
    LET p == r.originalData.sale_price
        c == r.carCommission
    IN  /\ p < Dollars(10000) => c = Dollars(200)
        /\ Dollars(10000) <= p /\ p < Dollars(20000) => c = Dollars(300)
        /\ Dollars(20000) <= p /\ p < Dollars(30000) => c = Dollars(400)
        /\ p >= Dollars(30000) => c = Dollars(500)
        /\ p = Dollars(10000) => c = Dollars(300)
        /\ p = Dollars(20000) => c = Dollars(400)
        /\ p = Dollars(30000) => c = Dollars(500)

\* A sale priced at exactly 10000 has been given 300.
C1_Witness ==
  \E r \in Rows :
    r.originalData.sale_price = Dollars(10000) /\ r.carCommission = Dollars(300)

\* C2: when warranty_price and warranty_cost are both present and non-zero,
\* the warranty commission is 100 * q for the integer q with
\* 1000 * q <= profit < 1000 * (q + 1), profit = warranty_price -
\* warranty_cost: rounding is toward negative infinity, a negative profit
\* gives a negative commission (-500 gives -100, 2000 gives 200).
C2_WarrantyFloor ==
  \A r \in Rows :
    LET s == r.originalData
        w == r.warrantyCommission
    IN  Truthy(s.warranty_price) /\ Truthy(s.warranty_cost) =>
          LET profit == ValueOf(s.warranty_price) - ValueOf(s.warranty_cost)
          IN  /\ w % Dollars(100) = 0
              /\ 10 * w <= profit
              /\ profit < 10 * w + Dollars(1000)
              /\ profit < 0 => w < 0
              /\ profit = -Dollars(500) => w = -Dollars(100)
              /\ profit = Dollars(2000) => w = Dollars(200)

\* warranty_price 500 and warranty_cost 1000 have been given -100.
C2_Witness ==
  \E r \in Rows :
    /\ r.originalData.warranty_price = Present(Dollars(500))
    /\ r.originalData.warranty_cost = Present(Dollars(1000))
    /\ r.warrantyCommission = -Dollars(100)

\* C3: when accessories_price is present and non-zero, the accessories
\* commission is 100 exactly when accessories_price - threshold > 800 and 0
\* otherwise, with threshold 988 for 'New' and 488 for 'Used' and 'Trade-In'
\* (New: 1789 gives 100, 1788 gives 0; Used, Trade-In: 1289 gives 100, 1288
\* gives 0).
C3_AccessoriesThreshold ==
  \A r \in Rows :
    LET s == r.originalData
        a == r.accessoriesCommission
    IN  Truthy(s.accessories_price) =>
          LET price == ValueOf(s.accessories_price)
              other == s.sale_type \in {"Used", "Trade-In"}
          IN  /\ s.sale_type = "New" =>
                   a = (IF price - Dollars(988) > Dollars(800) THEN Dollars(100) ELSE 0)
              /\ other =>
                   a = (IF price - Dollars(488) > Dollars(800) THEN Dollars(100) ELSE 0)
              /\ s.sale_type = "New" /\ price = Dollars(1789) => a = Dollars(100)
              /\ s.sale_type = "New" /\ price = Dollars(1788) => a = 0
              /\ other /\ price = Dollars(1289) => a = Dollars(100)
              /\ other /\ price = Dollars(1288) => a = 0

\* A 'Trade-In' sale with accessories of 1289 has been given 100.
C3_Witness ==
  \E r \in Rows :
    /\ r.originalData.sale_type = "Trade-In"
    /\ r.originalData.accessories_price = Present(Dollars(1289))
    /\ r.accessoriesCommission = Dollars(100)

\* C4: the maintenance commission is 100 exactly when maintenance_price is
\* present and strictly greater than 800, and 0 otherwise (801 gives 100,
\* 800 gives 0).
C4_MaintenanceCutoff ==
  \A r \in Rows :
    LET m == r.originalData.maintenance_price
        c == r.maintenanceCommission
    IN  /\ c = Dollars(100) <=> (IsPresent(m) /\ ValueOf(m) > Dollars(800))
        /\ c # Dollars(100) => c = 0
        /\ m = Present(Dollars(801)) => c = Dollars(100)
        /\ m = Present(Dollars(800)) => c = 0

\* maintenance_price 800 has been given 0.
C4_Witness ==
  \E r \in Rows :
    /\ r.originalData.maintenance_price = Present(Dollars(800))
    /\ r.maintenanceCommission = 0

\* C5: the total of every computed row is the sum of its four components,
\* also when the warranty commission is negative.
C5_TotalIsSum ==
  \A r \in Rows :
    r.totalCommission = r.carCommission + r.accessoriesCommission
                          + r.warrantyCommission + r.maintenanceCommission

\* A row with a negative warranty commission and every other component
\* above its minimum has been computed.
C5_Witness ==
  \E r \in Rows :
    /\ r.warrantyCommission < 0
    /\ r.accessoriesCommission = Dollars(100)
    /\ r.maintenanceCommission = Dollars(100)
    /\ r.totalCommission = r.carCommission + Dollars(100)

\* --------------------------------------------------------- claims C6 .. C8
\* Every numeric field of the sale is >= 0 (a valid SaleEntry).
ValidSale(s) ==
  /\ s.sale_price >= 0
  /\ \A f \in {s.accessories_price, s.warranty_price, s.warranty_cost,
               s.maintenance_price} : IsPresent(f) => ValueOf(f) >= 0

\* x is a whole number of dollars.
WholeDollars(x) == x % Dollars(1) = 0

\* C6 as stated: for a valid sale each of the four components and the total
\* is a non-negative integer.
C6_AllNonNegative ==
  \A r \in Rows :
    ValidSale(r.originalData) =>
      \A x \in {r.carCommission, r.accessoriesCommission, r.warrantyCommission,
                r.maintenanceCommission, r.totalCommission} :
        WholeDollars(x) /\ x >= 0

\* C6 amended: for a valid sale each of the four components and the total
\* is an integer; the car, accessories and maintenance commissions are
\* non-negative; the warranty commission is negative exactly when
\* warranty_price and warranty_cost are both non-zero and warranty_price <
\* warranty_cost, and the total is non-negative whenever the warranty
\* commission is.
C6_IntegerAndSign ==
  \A r \in Rows :
    LET s == r.originalData
    IN  ValidSale(s) =>
          /\ \A x \in {r.carCommission, r.accessoriesCommission,
                       r.warrantyCommission, r.maintenanceCommission,
                       r.totalCommission} : WholeDollars(x)
          /\ r.carCommission >= 0
          /\ r.accessoriesCommission >= 0
          /\ r.maintenanceCommission >= 0
          /\ r.warrantyCommission < 0 <=>
               /\ Truthy(s.warranty_price) /\ Truthy(s.warranty_cost)
               /\ ValueOf(s.warranty_price) < ValueOf(s.warranty_cost)
          /\ r.warrantyCommission >= 0 => r.totalCommission >= 0

\* A valid sale whose warranty cost exceeds its price by a hundredth has
\* been given a warranty commission of -100.
C6_Witness ==
  \E r \in Rows :
    /\ ValidSale(r.originalData)
    /\ r.originalData.warranty_price = Present(Dollars(500))
    /\ r.originalData.warranty_cost = Present(Dollars(500) + 1)
    /\ r.warrantyCommission = -Dollars(100)

\* The reading of calculateCommissions in which an optional field equal to
\* 0 is present: every truthiness test replaced by a test against
\* undefined / null.
calculateCommissionsNullCheck(s) ==
  LET carCommission == carCommissionOf(s)
      accessoriesCommission ==
        IF IsPresent(s.accessories_price)
        THEN LET threshold == IF s.sale_type = "New" THEN Dollars(988) ELSE Dollars(488)
                 eligibleAmount == ValueOf(s.accessories_price) - threshold
             IN  IF eligibleAmount > Dollars(800) THEN Dollars(100) ELSE 0
        ELSE 0
      warrantyCommission ==
        IF IsPresent(s.warranty_price) /\ IsPresent(s.warranty_cost)
        THEN LET profit == ValueOf(s.warranty_price) - ValueOf(s.warranty_cost)
             IN  MathFloorDiv(profit, Dollars(1000)) * Dollars(100)
        ELSE 0
      maintenanceCommission ==
        IF IsPresent(s.maintenance_price) /\ ValueOf(s.maintenance_price) > Dollars(800)
        THEN Dollars(100)
        ELSE 0
  IN  [carCommission |-> carCommission,
       accessoriesCommission |-> accessoriesCommission,
       warrantyCommission |-> warrantyCommission,
       maintenanceCommission |-> maintenanceCommission,
       totalCommission |-> carCommission + accessoriesCommission
                             + warrantyCommission + maintenanceCommission]

\* The five amounts of a row, as a breakdown.
BreakdownOf(r) ==
  [carCommission |-> r.carCommission,
   accessoriesCommission |-> r.accessoriesCommission,
   warrantyCommission |-> r.warrantyCommission,
   maintenanceCommission |-> r.maintenanceCommission,
   totalCommission |-> r.totalCommission]

\* C7 as stated: for every valid sale the null-check reading returns the
\* breakdown the implementation returns.
C7_NullCheckSameBreakdown ==
  \A r \in Rows :
    ValidSale(r.originalData) =>
      calculateCommissionsNullCheck(r.originalData) = BreakdownOf(r)

\* The warranty fields on which the two readings part: both present, and
\* warranty_price 0 with a cost above 0, or warranty_cost 0 with a price of
\* 1000 or more.
WarrantyZeroMatters(s) ==
  /\ IsPresent(s.warranty_price)
  /\ IsPresent(s.warranty_cost)
  /\ \/ ValueOf(s.warranty_price) = 0 /\ ValueOf(s.warranty_cost) > 0
     \/ ValueOf(s.warranty_cost) = 0 /\ ValueOf(s.warranty_price) >= Dollars(1000)

\* C7 amended: for every valid sale the null-check reading returns the same
\* car, accessories and maintenance commission as the implementation, also
\* when accessories_price or maintenance_price is 0; it returns the same
\* warranty commission and total except when warranty_price is 0 and
\* warranty_cost is above 0, or warranty_cost is 0 and warranty_price is
\* 1000 or more, where the implementation returns a warranty commission of
\* 0 and the null-check reading floor(profit / 1000) * 100, which is not 0.
C7_NullCheckSameButWarranty ==
  \A r \in Rows :
    LET s == r.originalData
        n == calculateCommissionsNullCheck(s)
    IN  ValidSale(s) =>
          /\ n.carCommission = r.carCommission
          /\ n.accessoriesCommission = r.accessoriesCommission
          /\ n.maintenanceCommission = r.maintenanceCommission
          /\ ~WarrantyZeroMatters(s) => n = BreakdownOf(r)
          /\ WarrantyZeroMatters(s) =>
               /\ r.warrantyCommission = 0
               /\ n.warrantyCommission # 0
               /\ n.totalCommission # r.totalCommission

\* A sale with accessories_price 0, maintenance_price 0, warranty_price 0
\* and warranty_cost 500 has been computed: the implementation gave a
\* warranty commission of 0 where the null-check reading gives -100.
C7_Witness ==
  \E r \in Rows :
    /\ r.originalData.accessories_price = Present(0)
    /\ r.originalData.maintenance_price = Present(0)
    /\ r.originalData.warranty_price = Present(0)
    /\ r.originalData.warranty_cost = Present(Dollars(500))
    /\ r.warrantyCommission = 0
    /\ calculateCommissionsNullCheck(r.originalData).warrantyCommission = -Dollars(100)

\* The names of the fields of a returned breakdown, carried into the row.
BreakdownFields ==
  {"carCommission", "accessoriesCommission", "warrantyCommission",
   "maintenanceCommission", "totalCommission"}

\* C8: for every combination of absent and present optional fields the call
\* returns a breakdown (the next row can always be built, and every row
\* holds five integer amounts), and an absent field contributes zero: the
\* accessories commission is 0 without accessories_price, the maintenance
\* commission is 0 without maintenance_price, and the warranty commission is
\* 0 when warranty_price or warranty_cost is absent, whatever the other is.
C8_AbsentContributesZero ==
  /\ Len(gridData) < Len(sales) => ENABLED ProcessSale
  /\ \A r \in Rows :
       LET s == r.originalData
       IN  /\ BreakdownFields \subseteq DOMAIN r
           /\ \A f \in BreakdownFields : r[f] \in Int
           /\ ~IsPresent(s.accessories_price) => r.accessoriesCommission = 0
           /\ ~IsPresent(s.maintenance_price) => r.maintenanceCommission = 0
           /\ ~IsPresent(s.warranty_price) \/ ~IsPresent(s.warranty_cost) =>
                r.warrantyCommission = 0

\* A sale with warranty_price 2500 and no warranty_cost, no accessories and
\* no maintenance has been given 0 for all three.
C8_Witness ==
  \E r \in Rows :
    /\ r.originalData.warranty_price = Present(Dollars(2500))
    /\ r.originalData.warranty_cost = Absent
    /\ r.originalData.accessories_price = Absent
    /\ r.originalData.maintenance_price = Absent
    /\ r.warrantyCommission = 0
    /\ r.accessoriesCommission = 0
    /\ r.maintenanceCommission = 0

\* -------------------------------------------------------- claims C9 .. C10
\* C9: the calculator is deterministic and stateless.  Every call leaves
\* the sales it is given and the rows computed before it as they were, the
\* row it adds is the row of the sale it was given, and any two rows
\* computed for the same sale hold the same breakdown, whatever sales were
\* processed between them.
C9_DeterministicStateless ==
  [][/\ sales' = sales
     /\ Len(gridData') = Len(gridData) + 1
     /\ SubSeq(gridData', 1, Len(gridData)) = gridData
     /\ gridData'[Len(gridData')].originalData = sales[Len(gridData')]
     /\ \A i, j \in DOMAIN gridData' :
          gridData'[i].originalData = gridData'[j].originalData =>
            BreakdownOf(gridData'[i]) = BreakdownOf(gridData'[j])]_vars

\* The same sale has been processed twice with a sale of another breakdown
\* processed in between.
C9_Witness ==
  \E i, j, k \in DOMAIN gridData :
    /\ i < j /\ j < k
    /\ gridData[i].originalData = gridData[k].originalData
    /\ gridData[j].originalData # gridData[i].originalData
    /\ gridData[j].warrantyCommission # gridData[i].warrantyCommission
    /\ BreakdownOf(gridData[i]) = BreakdownOf(gridData[k])

\* C10: the four components are independent.  Two computed rows whose sales
\* agree on sale_price hold the same car commission; on accessories_price
\* and sale_type, the same accessories commission; on warranty_price and
\* warranty_cost, the same warranty commission; on maintenance_price, the
\* same maintenance commission; whatever the other fields of the two sales.
C10_ComponentsIndependent ==
  \A i, j \in DOMAIN gridData :
    LET a == gridData[i].originalData
        b == gridData[j].originalData
    IN  /\ a.sale_price = b.sale_price =>
             gridData[i].carCommission = gridData[j].carCommission
        /\ a.accessories_price = b.accessories_price /\ a.sale_type = b.sale_type =>
             gridData[i].accessoriesCommission = gridData[j].accessoriesCommission
        /\ a.warranty_price = b.warranty_price /\ a.warranty_cost = b.warranty_cost =>
             gridData[i].warrantyCommission = gridData[j].warrantyCommission
        /\ a.maintenance_price = b.maintenance_price =>
             gridData[i].maintenanceCommission = gridData[j].maintenanceCommission

\* Two rows have been computed whose sales agree on maintenance_price alone
\* and differ in every other field and in every other component; both hold
\* a maintenance commission of 100.
C10_Witness ==
  \E i, j \in DOMAIN gridData :
    LET a == gridData[i].originalData
        b == gridData[j].originalData
    IN  /\ a.maintenance_price = b.maintenance_price
        /\ a.sale_price # b.sale_price
        /\ a.sale_type # b.sale_type
        /\ a.accessories_price # b.accessories_price
        /\ a.warranty_price # b.warranty_price
        /\ a.warranty_cost # b.warranty_cost
        /\ gridData[i].carCommission # gridData[j].carCommission
        /\ gridData[i].accessoriesCommission # gridData[j].accessoriesCommission
        /\ gridData[i].warrantyCommission # gridData[j].warrantyCommission
        /\ gridData[i].maintenanceCommission = Dollars(100)
        /\ gridData[j].maintenanceCommission = Dollars(100)

\* -------------------------------------------------------------- claim C11
\* Sales at the far ends of the ranges: accessories and maintenance far
\* above their cutoffs, a warranty profit of 6500 and a warranty loss of
\* 4500.
ExtremeSaleEntries ==
  [sale_type : {"New", "Used"},
   sale_price : {0, Dollars(30000)},
   accessories_price : {Absent, Present(Dollars(1789)), Present(Dollars(50000))},
   warranty_price : {Present(Dollars(500)), Present(Dollars(7000))},
   warranty_cost : {Absent, Present(Dollars(500)), Present(Dollars(5000))},
   maintenance_price : {Absent, Present(Dollars(50000))}]

\* A grid over two such sales.
InitExtremes ==
  /\ sales \in [1..2 -> ExtremeSaleEntries]
  /\ gridData = << >>
  /\ RestAtRest

SpecExtremes == InitExtremes /\ [][Next]_vars

\* C11: in every computed row the car commission is 200, 300, 400 or 500,
\* the accessories commission is 0 or 100 however far accessories_price is
\* above the threshold, and the maintenance commission is 0 or 100; so only
\* the warranty commission is ever negative or above 500, and a total below
\* 0 comes with a negative warranty profit (warranty_price and warranty_cost
\* both non-zero, warranty_price < warranty_cost).
C11_ComponentRanges ==
  \A r \in Rows :
    LET s == r.originalData
    IN  /\ r.carCommission \in {Dollars(200), Dollars(300), Dollars(400), Dollars(500)}
        /\ r.accessoriesCommission \in {0, Dollars(100)}
        /\ r.maintenanceCommission \in {0, Dollars(100)}
        /\ r.totalCommission < 0 =>
             /\ r.warrantyCommission < 0
             /\ Truthy(s.warranty_price) /\ Truthy(s.warranty_cost)
             /\ ValueOf(s.warranty_price) - ValueOf(s.warranty_cost) < 0

\* Two rows have been computed: one with accessories of 50000 given 100 and
\* a warranty commission above 500, one whose warranty loss makes the total
\* negative.
C11_Witness ==
  \E r, q \in Rows :
    /\ r.originalData.accessories_price = Present(Dollars(50000))
    /\ r.accessoriesCommission = Dollars(100)
    /\ r.warrantyCommission > Dollars(500)
    /\ q.warrantyCommission < 0
    /\ q.totalCommission < 0

\* ------------------------------------------------------ claims C12, C15, C16
\* The notifications table holds a 'shared_sale_pending' row of the sale
\* for the user.
NotifiedOf(userId, saleId) ==
  \E i \in DOMAIN notifications :
    notifications[i] = [user_id |-> userId, sale_id |-> saleId,
                        type |-> "shared_sale_pending"]

\* The sale is shared with the user registered under the email, and its
\* shared_status is one of the given values.
SharedWith(row, email, statuses) ==
  /\ row.shared_with_email = email
  /\ \E u \in usersTable : u.email = email /\ row.shared_with_id = u.id
  /\ row.shared_status \in statuses

\* C12: the step in which the sale update of shareSale succeeds leaves the
\* sale 'pending' and shared with the id and the email of the recipient,
\* shareSale returns only after that step, and when it has returned the sale
\* is still shared with that recipient; the shared_status of a sale leaves
\* 'pending' only in a step in which the update of respondToSharedSale for
\* that sale succeeds, and it then is the response given, 'accepted' or
\* 'rejected'.
C12_PendingUntilResponded ==
  [][/\ share.pc = "update" /\ share'.pc = "insert" =>
          SharedWith(salesTable'[share.saleId], share.recipientEmail, {"pending"})
     /\ share'.pc = "returned" /\ share.pc # "returned" => share.pc = "insert"
     /\ share'.pc = "returned" =>
          SharedWith(salesTable'[share'.saleId], share'.recipientEmail,
                     {"pending", "accepted", "rejected"})
     /\ \A id \in SaleIds :
          /\ salesTable[id].shared_status = "pending"
          /\ salesTable'[id].shared_status # "pending"
          => /\ respond.pc = "update"
             /\ respond.saleId = id
             /\ respond'.pc = "returned"
             /\ respond.response \in {"accepted", "rejected"}
             /\ salesTable'[id].shared_status = respond.response]_vars

\* shareSale of s1 with u2 has returned and the recipient's 'rejected' has
\* been stored since.
C12_Witness ==
  /\ share.pc = "returned"
  /\ share.saleId = "s1"
  /\ share.recipientEmail = "u2@dealer.test"
  /\ respond.pc = "returned"
  /\ respond.saleId = "s1"
  /\ respond.response = "rejected"
  /\ salesTable["s1"].shared_with_id = "u2"
  /\ salesTable["s1"].shared_status = "rejected"

\* C15: shareSale is all-or-nothing.  Whenever no shareSale call is under
\* way, a sale has been given a shared_status exactly if a notification of
\* that sale has been inserted, and the user a sale is shared with holds a
\* 'shared_sale_pending' notification of it.
C15_ShareAllOrNothing ==
  Finished(share) =>
    \A id \in SaleIds :
      LET row == salesTable[id]
      IN  /\ row.shared_status # NULL <=>
               \E i \in DOMAIN notifications : notifications[i].sale_id = id
          /\ row.shared_status # NULL => NotifiedOf(row.shared_with_id, id)

\* C16: the step in which the recipient lookup of shareSale returns changes
\* neither the sales nor the notifications table, and when it has found no
\* user the call has thrown 'Recipient not found'; an email that no
\* registered user has always ends this way.
C16_RecipientNotFound ==
  [][share.pc = "lookup" /\ share' # share =>
       /\ salesTable' = salesTable
       /\ notifications' = notifications
       /\ share'.recipientId = NULL \/ UsersWithEmail(share.recipientEmail) = {} =>
            /\ share'.pc = "threw"
            /\ share'.error = "Recipient not found"]_vars

\* After s1 had been shared with u2 and accepted, sharing it with an
\* unregistered address has thrown 'Recipient not found' and left the sale
\* as it was.
C16_Witness ==
  /\ share.pc = "threw"
  /\ share.error = "Recipient not found"
  /\ share.saleId = "s1"
  /\ share.recipientEmail = "nobody@dealer.test"
  /\ salesTable["s1"].shared_with_email = "u2@dealer.test"
  /\ salesTable["s1"].shared_with_id = "u2"
  /\ salesTable["s1"].shared_status = "accepted"
  /\ Len(notifications) = 1

\* C18: whenever the modal is closed selectedItem is null, and a step of
\* handleNewSale leaves the modal open with selectedItem null (the two state
\* setters of a handler take effect in one render).
C18_ClosedModalHasNoItem ==
  /\ [](~isNewSaleModalOpen => selectedItem = Absent)
  /\ [][handleNewSale => (isNewSaleModalOpen' /\ selectedItem' = Absent)]_vars

\* An entry was being edited, and the modal has been closed again.
C18_Witness ==
  /\ Rendered
  /\ ~isNewSaleModalOpen
  /\ selectedItem = Absent
  /\ toasts = <<SuccessToast("Trade-in commission updated successfully")>>

\* C19: mounted with a session that has a user id, the Dashboard comes to
\* loading = false; the return of a fetchSales query, with rows or with an
\* error, leaves loading false; loading once false stays false; and the return
\* of fetchSpiffs or fetchUserName leaves loading as it is.
C19_LoadingEndsWithFetchSales ==
  /\ (session # NULL) ~> ~loading
  /\ [][/\ \A month \in Months :
             (FetchSalesOk(month) \/ FetchSalesError(month)) => ~loading'
        /\ ~loading => ~loading'
        /\ (\/ FetchUserNameOk
            \/ FetchUserNameError
            \/ \E month \in Months : FetchSpiffsOk(month) \/ FetchSpiffsError(month))
           => loading' = loading
        /\ loading' # loading
           => \E month \in Months : FetchSalesOk(month) \/ FetchSalesError(month)]_vars

\* The first fetchSales has failed: the toast is up and loading is over,
\* with fetchSpiffs and fetchUserName still awaited.
C19_Witness ==
  /\ ~loading
  /\ toasts = <<ErrorToast("Error fetching sales data")>>
  /\ inFlight[Call("fetchUserName", NULL, NoMonth)] > 0
  /\ inFlight[Call("fetchSpiffs", NULL, currentDate)] > 0

\* No fetchSales and no fetchSpiffs is awaiting its response.
NoFetchInFlight ==
  \A month \in Months :
    /\ inFlight[Call("fetchSales", NULL, month)] = 0
    /\ inFlight[Call("fetchSpiffs", NULL, month)] = 0

\* C17: in the Dashboard of a signed-in user, whenever every fetchSales and
\* fetchSpiffs that was started has returned its rows, sales and spiffs are
\* the query results for the month selected now.
C17_ListsOfSelectedMonth ==
  (mounted /\ session # NULL /\ NoFetchInFlight)
    => /\ sales = QuerySales(session, currentDate)
       /\ spiffs = QuerySpiffs(session, currentDate)

\* A store call of one of the handlers returns an error: fetchSales,
\* fetchSpiffs, handleDelete, the submit of TradeInForm or of SpiffForm, or
\* fetchNotifications.
RemoteCallFails ==
  \/ \E month \in Months : FetchSalesError(month)
  \/ \E month \in Months : FetchSpiffsError(month)
  \/ \E id \in SaleIds, month \in Months : DeleteError("deleteSale", id, month)
  \/ \E id \in SpiffIds, month \in Months : DeleteError("deleteSpiff", id, month)
  \/ \E id \in SaleIds \cup SpiffIds, month \in Months :
       UpdateTradeInError(id, month)
  \/ \E month \in Months : InsertSpiffError(month)
  \/ FetchNotificationsError

\* C14: after a step in which a store call of a handler has failed, the toast
\* on screen is an error toast, and the handler has sent no call in place of
\* the failed one.
C14_FailureIsToasted ==
  [][RemoteCallFails
       => /\ toasts' # << >>
          /\ toasts'[1].kind = "error"
          /\ \E call \in Calls : inFlight' = Settle(inFlight, call)]_vars

\* C13: when a fetchSales of the Dashboard returns its rows for the month of
\* a sale that is shared with the signed-in user, the rows contain the sale
\* if its shared_status is 'accepted', and do not contain it otherwise.
C13_AcceptedSaleIsFetched ==
  [][\A month \in Months, saleId \in DOMAIN salesTable :
       (/\ FetchSalesOk(month)
        /\ salesTable[saleId].month = month
        /\ salesTable[saleId].shared_with_id = session)
       => (salesTable[saleId].shared_status = "accepted"
             <=> \E i \in DOMAIN sales' : sales'[i].id = saleId)]_vars

====
